---------------------------- MODULE Spec2Model ----------------------------
(***************************************************************************)
(* Model of the concurrency examples of dsa-golang:                        *)
(*   - the linear pipeline   (go_concurrent_patterns/pipeline/main.go)     *)
(*   - the fan-out / fan-in  (heap/maxHeap/main.go, second program)        *)
(*   - the worker pool       (unnamed/part_001)                            *)
(* Goroutines are processes with a program counter; an unbuffered channel  *)
(* operation is a rendezvous of a goroutine blocked in a send with one     *)
(* blocked in a receive; a buffered channel is a bounded FIFO queue.       *)
(***************************************************************************)
EXTENDS Integers, Sequences, FiniteSets, Bags, TLC

VARIABLES
    \* ---- linear pipeline ----
    p_nums,     \* argument of generate(nums...)
    p_fns,      \* the chain of stages, by name, in pipeline order
    p_pc,       \* program counter of each goroutine (1 generate, 2..k+1 stages, k+2 main)
    p_idx,      \* number of items generate has handed over so far
    p_hold,     \* per goroutine: the value it is about to send
    p_closed,   \* per channel: the goroutines that executed close() on it, in order
    p_got       \* the results main has received, in order

pvars == <<p_nums, p_fns, p_pc, p_idx, p_hold, p_closed, p_got>>

VARIABLES
    \* ---- fan-out / fan-in ----
    f_nums,     \* argument of generator(nums...)
    f_n,        \* numWorkers
    f_pc,       \* program counter of each goroutine
    f_idx,      \* number of items generator has handed over so far
    f_i,        \* the distributor's counter i
    f_cj,       \* number of lane channels the distributor has closed
    f_m,        \* number of channels fanIn's loop has dealt with
    f_hold,     \* per goroutine: the value it holds (is about to send)
    f_wg,       \* counter of fanIn's sync.WaitGroup
    f_closed,   \* per channel: the goroutines that executed close() on it
    f_panic,    \* a goroutine panicked: the program has crashed
    f_log,      \* <<lane, item>> in the order the workers received them
    f_in,       \* per lane: the values its forwarder received from workers[lane]
    f_got       \* per lane: the values main received from its forwarder, in order

fvars == <<f_nums, f_n, f_pc, f_idx, f_i, f_cj, f_m, f_hold, f_wg, f_closed,
           f_panic, f_log, f_in, f_got>>

VARIABLES
    \* ---- worker pool ----
    w_numJobs,    \* numJobs
    w_numWorkers, \* numWorkers
    w_main,       \* program counter of main
    w_i,          \* number of workers main has launched
    w_j,          \* number of jobs main has sent
    w_pc,         \* program counter of each worker
    w_hold,       \* per worker: the result it is about to send
    w_jobs,       \* buffer of the jobs channel
    w_results,    \* buffer of the results channel
    w_wg,         \* counter of the sync.WaitGroup
    w_closed,     \* per channel: the goroutines that executed close() on it
    w_log,        \* the jobs the workers received, in order
    w_got         \* the results main has received, in order

wvars == <<w_numJobs, w_numWorkers, w_main, w_i, w_j, w_pc, w_hold, w_jobs,
           w_results, w_wg, w_closed, w_log, w_got>>

VARIABLES
    \* ---- max heap ----
    h_array,    \* maxHeap.array
    h_keys,     \* main: the keys it inserts, in order (buildHeap)
    h_i,        \* main: how many of them have been inserted
    \* ---- one call of maxHeapifyUp, statement by statement ----
    s_pc,       \* "idle" (no call), "test" (at the loop condition), "done",
                \* "panic" (index out of range)
    s_index,    \* the local variable index
    s_start,    \* the index the call was made with
    s_swaps,    \* how many times the loop body has run
    s_reads     \* the indices of h.array read so far

svars == <<s_pc, s_index, s_start, s_swaps, s_reads>>

hvars == <<h_array, h_keys, h_i, svars>>

vars == <<pvars, fvars, wvars, hvars>>

\* what an action of one program leaves alone: the other programs
PipeFrame == UNCHANGED <<fvars, wvars, hvars>>
FanFrame == UNCHANGED <<pvars, wvars, hvars>>
PoolFrame == UNCHANGED <<pvars, fvars, hvars>>
HeapFrame == UNCHANGED <<pvars, fvars, wvars>>

\* a program that is not being run
PipeIdle ==
    /\ p_nums = <<>> /\ p_fns = <<>> /\ p_pc = <<>> /\ p_idx = 0
    /\ p_hold = <<>> /\ p_closed = <<>> /\ p_got = <<>>
FanIdle ==
    /\ f_nums = <<>> /\ f_n = 0 /\ f_pc = <<>> /\ f_idx = 0 /\ f_i = 0
    /\ f_cj = 0 /\ f_m = 0 /\ f_hold = <<>> /\ f_wg = 0 /\ f_closed = <<>>
    /\ f_panic = FALSE /\ f_log = <<>> /\ f_in = <<>> /\ f_got = <<>>
PoolIdle ==
    /\ w_numJobs = 0 /\ w_numWorkers = 0 /\ w_main = "done" /\ w_i = 0
    /\ w_j = 0 /\ w_pc = <<>> /\ w_hold = <<>> /\ w_jobs = <<>>
    /\ w_results = <<>> /\ w_wg = 0 /\ w_closed = <<>> /\ w_log = <<>>
    /\ w_got = <<>>
SiftIdle ==
    s_pc = "idle" /\ s_index = 0 /\ s_start = 0 /\ s_swaps = 0 /\ s_reads = {}
HeapIdle == h_array = <<>> /\ h_keys = <<>> /\ h_i = 0 /\ SiftIdle

(***************************************************************************)
(* Bounds of the model                                                     *)
(***************************************************************************)
MaxLen == 3        \* longest generated input sequence (besides the demos)
MaxStages == 2     \* longest generated chain of stages (besides the demos)
MaxWorkers == 2    \* largest generated numWorkers (besides the demos)
MaxJobs == 3       \* largest generated numJobs (besides the demo)
MaxHeapLen == 5    \* most keys inserted into a heap (besides the demo)

Vals == {1, 2}

RECURSIVE SeqsUpTo(_, _)
SeqsUpTo(S, n) ==
    IF n = 0 THEN {<<>>}
    ELSE LET shorter == SeqsUpTo(S, n - 1)
         IN  shorter \cup {Append(s, x) : s \in shorter, x \in S}

RECURSIVE SeqToBag(_)
SeqToBag(s) ==
    IF s = <<>> THEN EmptyBag ELSE SetToBag({Head(s)}) (+) SeqToBag(Tail(s))

(***************************************************************************)
(* The linear pipeline                                                     *)
(***************************************************************************)
square(n) == n * n
addTen(n) == n + 10
double(n) == n * 2
triple(n) == n * 3
subtract5(n) == n - 5

\* a function value a caller may hand to transform that is not total:
\* `func(n int) int { return 10 / n }` panics (integer divide by zero) on 0
inverse(n) == 10 \div n
faults(name, n) == name = "inverse" /\ n = 0

StageNames == {"square", "addTen", "double"}

\* the function a stage applies to the item it received
transform(name, n) ==
    CASE name = "square"    -> square(n)
      [] name = "addTen"    -> addTen(n)
      [] name = "double"    -> double(n)
      [] name = "triple"    -> triple(n)
      [] name = "subtract5" -> subtract5(n)
      [] name = "inverse"   -> inverse(n)

DemoNums1 == <<1, 2, 3, 4, 5>>
DemoChain1 == <<"square", "addTen", "double">>
DemoNums2 == <<1, 2, 3>>
DemoChain2 == <<"triple", "subtract5", "square">>

PipeInputs == SeqsUpTo(Vals, MaxLen) \cup {DemoNums1, DemoNums2}
PipeChains == SeqsUpTo(StageNames, MaxStages) \cup {DemoChain1, DemoChain2}

p_k == Len(p_fns)
p_main == p_k + 2
p_stages == 2 .. (p_k + 1)
p_chans == 1 .. (p_k + 1)
p_isClosed(c) == p_closed[c] # <<>>

\* generate: `for _, n := range nums` decides between the next send and close
generate_pc(i) == IF i < Len(p_nums) THEN "send" ELSE "close"

PipeInit ==
    /\ FanIdle /\ PoolIdle /\ HeapIdle
    /\ p_nums \in PipeInputs
    /\ p_fns \in PipeChains
    /\ p_idx = 0
    /\ p_pc = [g \in 1 .. (Len(p_fns) + 2) |->
                IF g = 1 THEN generate_pc(0)
                ELSE "recv"]
    /\ p_hold = [g \in 1 .. (Len(p_fns) + 2) |-> 0]
    /\ p_closed = [c \in 1 .. (Len(p_fns) + 1) |-> <<>>]
    /\ p_got = <<>>

\* faulty variant of p_offer: generate's loop sends the element before the current one
p_offer_stale(g) ==
    IF g = 1 THEN p_nums[IF p_idx = 0 THEN 1 ELSE p_idx] ELSE p_hold[g]

\* the value goroutine g offers on its output channel
p_offer(g) == IF g = 1 THEN p_nums[p_idx + 1] ELSE p_hold[g]

\* where the sender continues once its send has completed
p_afterSend(g) == IF g = 1 THEN generate_pc(p_idx + 1) ELSE "recv"

\* faulty variant of stage_recv: the stage takes its next item while the
\* result of the previous one is still waiting to be received downstream
stage_recv_overwriting(s) ==
    /\ s \in p_stages
    /\ p_pc[s] \in {"recv", "send"}
    /\ p_pc[s - 1] = "send"
    /\ ~p_isClosed(s - 1)
    /\ p_hold' = [p_hold EXCEPT ![s] = transform(p_fns[s - 1], p_offer(s - 1))]
    /\ p_pc' = [p_pc EXCEPT ![s] = "send", ![s - 1] = p_afterSend(s - 1)]
    /\ p_idx' = IF s - 1 = 1 THEN p_idx + 1 ELSE p_idx
    /\ UNCHANGED <<p_nums, p_fns, p_closed, p_got>>
    /\ PipeFrame

\* stage s receives an item from its input channel: `for n := range in`,
\* then computes the value of `out <- fn(n)` and blocks in that send
stage_recv(s) ==
    /\ s \in p_stages
    /\ p_pc[s] = "recv"
    /\ p_pc[s - 1] = "send"
    /\ ~p_isClosed(s - 1)
    /\ p_hold' = [p_hold EXCEPT ![s] = transform(p_fns[s - 1], p_offer(s - 1))]
    /\ p_pc' = [p_pc EXCEPT ![s] = "send", ![s - 1] = p_afterSend(s - 1)]
    /\ p_idx' = IF s - 1 = 1 THEN p_idx + 1 ELSE p_idx
    /\ UNCHANGED <<p_nums, p_fns, p_closed, p_got>>
    /\ PipeFrame

\* faulty variant of stage_exhausted: the stage leaves its loop as soon as no
\* item is being offered on its input, closed or not
stage_exhausted_eager(s) ==
    /\ s \in p_stages
    /\ p_pc[s] = "recv"
    /\ p_pc[s - 1] # "send"
    /\ p_pc' = [p_pc EXCEPT ![s] = "close"]
    /\ UNCHANGED <<p_nums, p_fns, p_idx, p_hold, p_closed, p_got>>
    /\ PipeFrame

\* stage s finds its input channel closed and empty: the range loop ends
stage_exhausted(s) ==
    /\ s \in p_stages
    /\ p_pc[s] = "recv"
    /\ p_isClosed(s - 1)
    /\ p_pc' = [p_pc EXCEPT ![s] = "close"]
    /\ UNCHANGED <<p_nums, p_fns, p_idx, p_hold, p_closed, p_got>>
    /\ PipeFrame

\* faulty variant of pipe_close: the goroutine returns without closing its output
pipe_close_forgotten(g) ==
    /\ g \in p_chans
    /\ p_pc[g] = "close"
    /\ p_pc' = [p_pc EXCEPT ![g] = "done"]
    /\ UNCHANGED <<p_nums, p_fns, p_idx, p_hold, p_closed, p_got>>
    /\ PipeFrame

\* close(out) of generate (g = 1) or of a stage, the goroutine's last statement
pipe_close(g) ==
    /\ g \in p_chans
    /\ p_pc[g] = "close"
    /\ p_closed' = [p_closed EXCEPT ![g] = Append(@, g)]
    /\ p_pc' = [p_pc EXCEPT ![g] = "done"]
    /\ UNCHANGED <<p_nums, p_fns, p_idx, p_hold, p_got>>
    /\ PipeFrame

\* main: `for result := range doubled` receives one result
pipe_main_recv ==
    /\ p_pc[p_main] = "recv"
    /\ p_pc[p_main - 1] = "send"
    /\ ~p_isClosed(p_main - 1)
    /\ p_got' = Append(p_got, p_offer(p_main - 1))
    /\ p_pc' = [p_pc EXCEPT ![p_main - 1] = p_afterSend(p_main - 1)]
    /\ p_idx' = IF p_main - 1 = 1 THEN p_idx + 1 ELSE p_idx
    /\ UNCHANGED <<p_nums, p_fns, p_hold, p_closed>>
    /\ PipeFrame

\* main: the final channel is closed, the range loop ends
pipe_main_exhausted ==
    /\ p_pc[p_main] = "recv"
    /\ p_isClosed(p_main - 1)
    /\ p_pc' = [p_pc EXCEPT ![p_main] = "done"]
    /\ UNCHANGED <<p_nums, p_fns, p_idx, p_hold, p_closed, p_got>>
    /\ PipeFrame

PipeNext ==
    \/ \E s \in p_stages : stage_recv(s)
    \/ \E s \in p_stages : stage_exhausted(s)
    \/ \E g \in p_chans : pipe_close(g)
    \/ pipe_main_recv
    \/ pipe_main_exhausted

PipeSpec == PipeInit /\ [][PipeNext]_vars

PipeFairSpec == PipeSpec /\ WF_vars(PipeNext)

\* the consumer of the last channel stops receiving before exhaustion: a
\* caller of transform that leaves its range loop early.  Neither generate
\* nor transform takes a cancellation signal, so nothing else changes
pipe_main_abandon ==
    /\ p_pc[p_main] = "recv"
    /\ ~p_isClosed(p_main - 1)
    /\ p_pc' = [p_pc EXCEPT ![p_main] = "abandoned"]
    /\ UNCHANGED <<p_nums, p_fns, p_idx, p_hold, p_closed, p_got>>
    /\ PipeFrame

PipeCancelNext ==
    \/ PipeNext
    \/ pipe_main_abandon

\* the pipeline with a consumer that may stop early
PipeCancelSpec == PipeInit /\ [][PipeCancelNext]_vars

\* inputs and chains for a stage whose function can fault
FaultInputs == SeqsUpTo({0, 2}, MaxLen)
FaultChains == SeqsUpTo(StageNames \cup {"inverse"}, MaxStages)

PipeFaultInit ==
    /\ FanIdle /\ PoolIdle /\ HeapIdle
    /\ p_nums \in FaultInputs
    /\ p_fns \in FaultChains
    /\ p_idx = 0
    /\ p_pc = [g \in 1 .. (Len(p_fns) + 2) |->
                IF g = 1 THEN generate_pc(0)
                ELSE "recv"]
    /\ p_hold = [g \in 1 .. (Len(p_fns) + 2) |-> 0]
    /\ p_closed = [c \in 1 .. (Len(p_fns) + 1) |-> <<>>]
    /\ p_got = <<>>

\* an unrecovered panic in any goroutine ends the whole process
PipePanicked == \E g \in DOMAIN p_pc : p_pc[g] = "panic"

\* stage s is about to receive an item on which its function faults
stage_faults(s) ==
    /\ p_pc[s] = "recv"
    /\ p_pc[s - 1] = "send"
    /\ ~p_isClosed(s - 1)
    /\ faults(p_fns[s - 1], p_offer(s - 1))

\* stage s receives an item its function is defined on
stage_recv_ok(s) ==
    /\ s \in p_stages
    /\ p_pc[s] = "recv"
    /\ p_pc[s - 1] = "send"
    /\ ~faults(p_fns[s - 1], p_offer(s - 1))
    /\ stage_recv(s)

\* stage s receives an item and fn(n) panics while `out <- fn(n)` is being
\* evaluated: the goroutine has no deferred close and no recover, so the
\* send and close(out) are never reached
stage_recv_fault(s) ==
    /\ s \in p_stages
    /\ stage_faults(s)
    /\ p_pc' = [p_pc EXCEPT ![s] = "panic", ![s - 1] = p_afterSend(s - 1)]
    /\ p_idx' = IF s - 1 = 1 THEN p_idx + 1 ELSE p_idx
    /\ UNCHANGED <<p_nums, p_fns, p_hold, p_closed, p_got>>
    /\ PipeFrame

PipeFaultNext ==
    \/ (~PipePanicked /\ \E s \in p_stages : stage_recv_ok(s))
    \/ (~PipePanicked /\ \E s \in p_stages : stage_recv_fault(s))
    \/ (~PipePanicked /\ \E s \in p_stages : stage_exhausted(s))
    \/ (~PipePanicked /\ \E g \in p_chans : pipe_close(g))
    \/ (~PipePanicked /\ pipe_main_recv)
    \/ (~PipePanicked /\ pipe_main_exhausted)

\* the pipeline with stage functions that may fault
PipeFaultSpec == PipeFaultInit /\ [][PipeFaultNext]_vars

(***************************************************************************)
(* Fan-out / fan-in                                                        *)
(***************************************************************************)
DemoFanNums == <<1, 2, 3, 4, 5, 6, 7, 8, 9, 10>>
DemoFanWorkers == 3

FanInputs == SeqsUpTo(Vals, MaxLen)
FanWidths == 1 .. MaxWorkers

\* the goroutines and the channels of the program; lanes count from 0
GEN == <<"generator", 0>>
DIST == <<"distributor", 0>>
CLOSER == <<"closer", 0>>
MAIN == <<"main", 0>>
SQ(i) == <<"square", i>>
FWD(i) == <<"forwarder", i>>
INPUT == <<"input", 0>>
OUT == <<"out", 0>>
LANE(i) == <<"inputChannels", i>>
WORKER(i) == <<"workers", i>>

f_lanes == 0 .. (f_n - 1)
f_isClosed(c) == f_closed[c] # <<>>

\* the worker function of the fan-out: `out <- n * n`
fan_square(n) == n * n

\* faulty variant of generator_pc: the loop stops one element early
generator_pc_short(i) == IF i < Len(f_nums) - 1 THEN "send" ELSE "close"

\* generator: `for _, n := range nums` decides between the next send and close
generator_pc(i) == IF i < Len(f_nums) THEN "send" ELSE "close"

\* faulty variant of dist_lane: the round robin starts one lane late
dist_lane_shifted(i, n) == (i + 1) % n

\* the lane the distributor picks for its i-th item: inputChannels[i%numWorkers]
dist_lane(i, n) == i % n

\* the state once main has called generator, created the lanes and their
\* square workers and launched the distributor, and is entering fanIn
FanInitFor(nums, n) ==
    /\ f_nums = nums
    /\ f_n = n
    /\ f_pc = [g \in {GEN, DIST, CLOSER, MAIN}
                     \cup {SQ(i) : i \in 0 .. (n - 1)}
                     \cup {FWD(i) : i \in 0 .. (n - 1)} |->
                CASE g = GEN -> generator_pc(0)
                  [] g = DIST -> "recv"
                  [] g = CLOSER -> "unborn"
                  [] g = MAIN -> (IF 0 < n THEN "add" ELSE "go_closer")
                  [] g[1] = "square" -> "recv"
                  [] OTHER -> "unborn"]
    /\ f_idx = 0
    /\ f_i = 0
    /\ f_cj = 0
    /\ f_m = 0
    /\ f_hold = [g \in {DIST} \cup {SQ(i) : i \in 0 .. (n - 1)}
                       \cup {FWD(i) : i \in 0 .. (n - 1)} |-> 0]
    /\ f_wg = 0
    /\ f_closed = [c \in {INPUT, OUT} \cup {LANE(i) : i \in 0 .. (n - 1)}
                         \cup {WORKER(i) : i \in 0 .. (n - 1)} |-> <<>>]
    /\ f_panic = FALSE
    /\ f_log = <<>>
    /\ f_in = [i \in 0 .. (n - 1) |-> <<>>]
    /\ f_got = [i \in 0 .. (n - 1) |-> <<>>]

FanInit ==
    /\ PipeIdle /\ PoolIdle /\ HeapIdle
    /\ \/ \E nums \in FanInputs, n \in FanWidths : FanInitFor(nums, n)
       \/ FanInitFor(DemoFanNums, DemoFanWorkers)

\* generator: close(out)
generator_close ==
    /\ ~f_panic
    /\ f_pc[GEN] = "close"
    /\ f_closed' = [f_closed EXCEPT ![INPUT] = Append(@, GEN)]
    /\ f_pc' = [f_pc EXCEPT ![GEN] = "done"]
    /\ UNCHANGED <<f_nums, f_n, f_idx, f_i, f_cj, f_m, f_hold, f_wg, f_panic,
                   f_log, f_got, f_in>>
    /\ FanFrame

\* faulty variant of dist_recv: the distributor takes the next item of input
\* while the one before has not been received by its lane's worker yet
dist_recv_overwriting ==
    /\ ~f_panic
    /\ f_pc[DIST] \in {"recv", "send"}
    /\ f_pc[GEN] = "send"
    /\ ~f_isClosed(INPUT)
    /\ f_hold' = [f_hold EXCEPT ![DIST] = f_nums[f_idx + 1]]
    /\ f_idx' = f_idx + 1
    /\ f_panic' = (f_n = 0)
    /\ f_pc' = [f_pc EXCEPT ![DIST] = IF f_n = 0 THEN "panic" ELSE "send",
                            ![GEN] = generator_pc(f_idx + 1)]
    /\ UNCHANGED <<f_nums, f_n, f_i, f_cj, f_m, f_wg, f_closed, f_log, f_got,
                   f_in>>
    /\ FanFrame

\* distributor: `for n := range input` receives an item, then evaluates
\* inputChannels[i%numWorkers], which panics (integer divide by zero) when
\* numWorkers is 0, and blocks in the send on that lane
dist_recv ==
    /\ ~f_panic
    /\ f_pc[DIST] = "recv"
    /\ f_pc[GEN] = "send"
    /\ ~f_isClosed(INPUT)
    /\ f_hold' = [f_hold EXCEPT ![DIST] = f_nums[f_idx + 1]]
    /\ f_idx' = f_idx + 1
    /\ f_panic' = (f_n = 0)
    /\ f_pc' = [f_pc EXCEPT ![DIST] = IF f_n = 0 THEN "panic" ELSE "send",
                            ![GEN] = generator_pc(f_idx + 1)]
    /\ UNCHANGED <<f_nums, f_n, f_i, f_cj, f_m, f_wg, f_closed, f_log, f_got,
                   f_in>>
    /\ FanFrame

\* distributor: input is closed, the range loop ends; `for _, ch := range
\* inputChannels` follows
dist_exhausted ==
    /\ ~f_panic
    /\ f_pc[DIST] = "recv"
    /\ f_isClosed(INPUT)
    /\ f_pc' = [f_pc EXCEPT ![DIST] = IF 0 < f_n THEN "close" ELSE "done"]
    /\ UNCHANGED <<f_nums, f_n, f_idx, f_i, f_cj, f_m, f_hold, f_wg, f_closed,
                   f_panic, f_log, f_got, f_in>>
    /\ FanFrame

\* distributor: close(ch) of the next lane channel
dist_close ==
    /\ ~f_panic
    /\ f_pc[DIST] = "close"
    /\ f_closed' = [f_closed EXCEPT ![LANE(f_cj)] = Append(@, DIST)]
    /\ f_cj' = f_cj + 1
    /\ f_pc' = [f_pc EXCEPT ![DIST] = IF f_cj + 1 < f_n THEN "close" ELSE "done"]
    /\ UNCHANGED <<f_nums, f_n, f_idx, f_i, f_m, f_hold, f_wg, f_panic, f_log,
                   f_got, f_in>>
    /\ FanFrame

\* square worker w: `for n := range in` receives the item the distributor
\* is sending on lane w (the distributor then does i++), and blocks in
\* `out <- n * n`
square_recv(w) ==
    /\ ~f_panic
    /\ w \in f_lanes
    /\ f_pc[SQ(w)] = "recv"
    /\ f_pc[DIST] = "send"
    /\ dist_lane(f_i, f_n) = w
    /\ ~f_isClosed(LANE(w))
    /\ f_hold' = [f_hold EXCEPT ![SQ(w)] = fan_square(f_hold[DIST])]
    /\ f_log' = Append(f_log, <<w, f_hold[DIST]>>)
    /\ f_i' = f_i + 1
    /\ f_pc' = [f_pc EXCEPT ![SQ(w)] = "send", ![DIST] = "recv"]
    /\ UNCHANGED <<f_nums, f_n, f_idx, f_cj, f_m, f_wg, f_closed, f_panic,
                   f_got, f_in>>
    /\ FanFrame

\* square worker w: its lane is closed, the range loop ends
square_exhausted(w) ==
    /\ ~f_panic
    /\ w \in f_lanes
    /\ f_pc[SQ(w)] = "recv"
    /\ f_isClosed(LANE(w))
    /\ f_pc' = [f_pc EXCEPT ![SQ(w)] = "close"]
    /\ UNCHANGED <<f_nums, f_n, f_idx, f_i, f_cj, f_m, f_hold, f_wg, f_closed,
                   f_panic, f_log, f_got, f_in>>
    /\ FanFrame

\* faulty variant of square_close: the worker returns without closing its output
square_close_forgotten(w) ==
    /\ ~f_panic
    /\ w \in f_lanes
    /\ f_pc[SQ(w)] = "close"
    /\ f_pc' = [f_pc EXCEPT ![SQ(w)] = "done"]
    /\ UNCHANGED <<f_nums, f_n, f_idx, f_i, f_cj, f_m, f_hold, f_wg, f_closed,
                   f_panic, f_log, f_in, f_got>>
    /\ FanFrame

\* square worker w: close(out)
square_close(w) ==
    /\ ~f_panic
    /\ w \in f_lanes
    /\ f_pc[SQ(w)] = "close"
    /\ f_closed' = [f_closed EXCEPT ![WORKER(w)] = Append(@, SQ(w))]
    /\ f_pc' = [f_pc EXCEPT ![SQ(w)] = "done"]
    /\ UNCHANGED <<f_nums, f_n, f_idx, f_i, f_cj, f_m, f_hold, f_wg, f_panic,
                   f_log, f_got, f_in>>
    /\ FanFrame

\* faulty variant of fanIn_add: the counter is raised by two for one channel
fanIn_add_double ==
    /\ ~f_panic
    /\ f_pc[MAIN] = "add"
    /\ f_wg' = f_wg + 2
    /\ f_pc' = [f_pc EXCEPT ![MAIN] = "go"]
    /\ UNCHANGED <<f_nums, f_n, f_idx, f_i, f_cj, f_m, f_hold, f_closed,
                   f_panic, f_log, f_got, f_in>>
    /\ FanFrame

\* fanIn (run by main): wg.Add(1) for the next channel
fanIn_add ==
    /\ ~f_panic
    /\ f_pc[MAIN] = "add"
    /\ f_wg' = f_wg + 1
    /\ f_pc' = [f_pc EXCEPT ![MAIN] = "go"]
    /\ UNCHANGED <<f_nums, f_n, f_idx, f_i, f_cj, f_m, f_hold, f_closed,
                   f_panic, f_log, f_got, f_in>>
    /\ FanFrame

\* fanIn (run by main): `go func(c <-chan int) {...}(ch)` launches the
\* forwarder of the next channel
fanIn_go ==
    /\ ~f_panic
    /\ f_pc[MAIN] = "go"
    /\ f_m' = f_m + 1
    /\ f_pc' = [f_pc EXCEPT ![FWD(f_m)] = "recv",
                            ![MAIN] = IF f_m + 1 < f_n THEN "add" ELSE "go_closer"]
    /\ UNCHANGED <<f_nums, f_n, f_idx, f_i, f_cj, f_hold, f_wg, f_closed,
                   f_panic, f_log, f_got, f_in>>
    /\ FanFrame

\* fanIn (run by main): launches the closer and returns out; main goes on
\* to `for result := range results`
fanIn_go_closer ==
    /\ ~f_panic
    /\ f_pc[MAIN] = "go_closer"
    /\ f_pc' = [f_pc EXCEPT ![CLOSER] = "wait", ![MAIN] = "recv"]
    /\ UNCHANGED <<f_nums, f_n, f_idx, f_i, f_cj, f_m, f_hold, f_wg, f_closed,
                   f_panic, f_log, f_got, f_in>>
    /\ FanFrame

\* faulty variant of forwarder_recv: the forwarder takes the next value of
\* its input while the previous one has not been received from out yet
forwarder_recv_overwriting(w) ==
    /\ ~f_panic
    /\ w \in f_lanes
    /\ f_pc[FWD(w)] \in {"recv", "send"}
    /\ f_pc[SQ(w)] = "send"
    /\ ~f_isClosed(WORKER(w))
    /\ f_hold' = [f_hold EXCEPT ![FWD(w)] = f_hold[SQ(w)]]
    /\ f_in' = [f_in EXCEPT ![w] = Append(@, f_hold[SQ(w)])]
    /\ f_pc' = [f_pc EXCEPT ![FWD(w)] = "send", ![SQ(w)] = "recv"]
    /\ UNCHANGED <<f_nums, f_n, f_idx, f_i, f_cj, f_m, f_wg, f_closed,
                   f_panic, f_log, f_got>>
    /\ FanFrame

\* forwarder w: `for val := range c` receives a value from workers[w] and
\* blocks in `out <- val`
forwarder_recv(w) ==
    /\ ~f_panic
    /\ w \in f_lanes
    /\ f_pc[FWD(w)] = "recv"
    /\ f_pc[SQ(w)] = "send"
    /\ ~f_isClosed(WORKER(w))
    /\ f_hold' = [f_hold EXCEPT ![FWD(w)] = f_hold[SQ(w)]]
    /\ f_in' = [f_in EXCEPT ![w] = Append(@, f_hold[SQ(w)])]
    /\ f_pc' = [f_pc EXCEPT ![FWD(w)] = "send", ![SQ(w)] = "recv"]
    /\ UNCHANGED <<f_nums, f_n, f_idx, f_i, f_cj, f_m, f_wg, f_closed,
                   f_panic, f_log, f_got>>
    /\ FanFrame

\* forwarder w: workers[w] is closed, the range loop ends; the deferred
\* wg.Done() is what is left
forwarder_exhausted(w) ==
    /\ ~f_panic
    /\ w \in f_lanes
    /\ f_pc[FWD(w)] = "recv"
    /\ f_isClosed(WORKER(w))
    /\ f_pc' = [f_pc EXCEPT ![FWD(w)] = "defer"]
    /\ UNCHANGED <<f_nums, f_n, f_idx, f_i, f_cj, f_m, f_hold, f_wg, f_closed,
                   f_panic, f_log, f_got, f_in>>
    /\ FanFrame

\* faulty variant of forwarder_done: the forwarder returns without wg.Done()
forwarder_done_forgotten(w) ==
    /\ ~f_panic
    /\ w \in f_lanes
    /\ f_pc[FWD(w)] = "defer"
    /\ f_pc' = [f_pc EXCEPT ![FWD(w)] = "done"]
    /\ UNCHANGED <<f_nums, f_n, f_idx, f_i, f_cj, f_m, f_hold, f_wg, f_closed,
                   f_panic, f_log, f_in, f_got>>
    /\ FanFrame

\* faulty variant of forwarder_done: every forwarder closes out itself when it returns
forwarder_done_closing(w) ==
    /\ ~f_panic
    /\ w \in f_lanes
    /\ f_pc[FWD(w)] = "defer"
    /\ f_wg' = f_wg - 1
    /\ f_closed' = [f_closed EXCEPT ![OUT] = Append(@, FWD(w))]
    /\ f_pc' = [f_pc EXCEPT ![FWD(w)] = "done"]
    /\ UNCHANGED <<f_nums, f_n, f_idx, f_i, f_cj, f_m, f_hold, f_panic, f_log,
                   f_in, f_got>>
    /\ FanFrame

\* forwarder w: `defer wg.Done()`
forwarder_done(w) ==
    /\ ~f_panic
    /\ w \in f_lanes
    /\ f_pc[FWD(w)] = "defer"
    /\ f_wg' = f_wg - 1
    /\ f_pc' = [f_pc EXCEPT ![FWD(w)] = "done"]
    /\ UNCHANGED <<f_nums, f_n, f_idx, f_i, f_cj, f_m, f_hold, f_closed,
                   f_panic, f_log, f_got, f_in>>
    /\ FanFrame

\* faulty variant of closer_wait: the closer does not wait for the counter
closer_wait_skipped ==
    /\ ~f_panic
    /\ f_pc[CLOSER] = "wait"
    /\ f_pc' = [f_pc EXCEPT ![CLOSER] = "close"]
    /\ UNCHANGED <<f_nums, f_n, f_idx, f_i, f_cj, f_m, f_hold, f_wg, f_closed,
                   f_panic, f_log, f_in, f_got>>
    /\ FanFrame

\* closer: wg.Wait() returns once the counter is zero
closer_wait ==
    /\ ~f_panic
    /\ f_pc[CLOSER] = "wait"
    /\ f_wg = 0
    /\ f_pc' = [f_pc EXCEPT ![CLOSER] = "close"]
    /\ UNCHANGED <<f_nums, f_n, f_idx, f_i, f_cj, f_m, f_hold, f_wg, f_closed,
                   f_panic, f_log, f_got, f_in>>
    /\ FanFrame

\* closer: close(out)
closer_close ==
    /\ ~f_panic
    /\ f_pc[CLOSER] = "close"
    /\ f_closed' = [f_closed EXCEPT ![OUT] = Append(@, CLOSER)]
    /\ f_pc' = [f_pc EXCEPT ![CLOSER] = "done"]
    /\ UNCHANGED <<f_nums, f_n, f_idx, f_i, f_cj, f_m, f_hold, f_wg, f_panic,
                   f_log, f_got, f_in>>
    /\ FanFrame

\* main: `for result := range results` receives the value forwarder w is
\* sending on out
fan_main_recv(w) ==
    /\ ~f_panic
    /\ w \in f_lanes
    /\ f_pc[MAIN] = "recv"
    /\ f_pc[FWD(w)] = "send"
    /\ ~f_isClosed(OUT)
    /\ f_got' = [f_got EXCEPT ![w] = Append(@, f_hold[FWD(w)])]
    /\ f_pc' = [f_pc EXCEPT ![FWD(w)] = "recv"]
    /\ UNCHANGED <<f_nums, f_n, f_idx, f_i, f_cj, f_m, f_hold, f_wg, f_closed,
                   f_panic, f_log, f_in>>
    /\ FanFrame

\* main: results is closed, the range loop ends and main returns
fan_main_exhausted ==
    /\ ~f_panic
    /\ f_pc[MAIN] = "recv"
    /\ f_isClosed(OUT)
    /\ f_pc' = [f_pc EXCEPT ![MAIN] = "done"]
    /\ UNCHANGED <<f_nums, f_n, f_idx, f_i, f_cj, f_m, f_hold, f_wg, f_closed,
                   f_panic, f_log, f_got, f_in>>
    /\ FanFrame

FanNext ==
    \/ generator_close
    \/ dist_recv
    \/ dist_exhausted
    \/ dist_close
    \/ \E w \in f_lanes : square_recv(w)
    \/ \E w \in f_lanes : square_exhausted(w)
    \/ \E w \in f_lanes : square_close(w)
    \/ fanIn_add
    \/ fanIn_go
    \/ fanIn_go_closer
    \/ \E w \in f_lanes : forwarder_recv(w)
    \/ \E w \in f_lanes : forwarder_exhausted(w)
    \/ \E w \in f_lanes : forwarder_done(w)
    \/ closer_wait
    \/ closer_close
    \/ \E w \in f_lanes : fan_main_recv(w)
    \/ fan_main_exhausted

FanSpec == FanInit /\ [][FanNext]_vars

FanFairSpec == FanSpec /\ WF_vars(FanNext)

(***************************************************************************)
(* Worker pool                                                             *)
(***************************************************************************)
numJobs == 5
numWorkers == 3

PoolJobs == 0 .. MaxJobs
PoolWidths == 1 .. MaxWorkers

w_workers == 1 .. w_numWorkers
w_isClosed(c) == w_closed[c] # <<>>

\* the worker function of the pool: `results <- job * 2`
pool_double(job) == job * 2

\* main after the launch loop: `for j := 1; j <= numJobs; j++`
pool_main_after_launch(nj) == IF 0 < nj THEN "send" ELSE "close_jobs"

\* the state once main has made the two buffered channels (capacity numJobs)
\* and the WaitGroup
PoolInitFor(nj, nw) ==
    /\ w_numJobs = nj
    /\ w_numWorkers = nw
    /\ w_main = IF 0 < nw THEN "add" ELSE pool_main_after_launch(nj)
    /\ w_i = 0
    /\ w_j = 0
    /\ w_pc = [k \in 1 .. nw |-> "unborn"]
    /\ w_hold = [k \in 1 .. nw |-> 0]
    /\ w_jobs = <<>>
    /\ w_results = <<>>
    /\ w_wg = 0
    /\ w_closed = [c \in {"jobs", "results"} |-> <<>>]
    /\ w_log = <<>>
    /\ w_got = <<>>

PoolInit ==
    /\ PipeIdle /\ FanIdle /\ HeapIdle
    /\ \/ \E nj \in PoolJobs, nw \in PoolWidths : PoolInitFor(nj, nw)
       \/ PoolInitFor(numJobs, numWorkers)

\* main: wg.Add(1)
pool_main_add ==
    /\ w_main = "add"
    /\ w_wg' = w_wg + 1
    /\ w_main' = "go"
    /\ UNCHANGED <<w_numJobs, w_numWorkers, w_i, w_j, w_pc, w_hold, w_jobs,
                   w_results, w_closed, w_log, w_got>>
    /\ PoolFrame

\* main: go worker(i, jobs, results, &wg)
pool_main_go ==
    /\ w_main = "go"
    /\ w_i' = w_i + 1
    /\ w_pc' = [w_pc EXCEPT ![w_i + 1] = "recv"]
    /\ w_main' = IF w_i + 1 < w_numWorkers THEN "add"
                 ELSE pool_main_after_launch(w_numJobs)
    /\ UNCHANGED <<w_numJobs, w_numWorkers, w_j, w_hold, w_jobs, w_results,
                   w_wg, w_closed, w_log, w_got>>
    /\ PoolFrame

\* main: jobs <- j, which blocks while the buffer is full
pool_main_send ==
    /\ w_main = "send"
    /\ Len(w_jobs) < w_numJobs
    /\ w_jobs' = Append(w_jobs, w_j + 1)
    /\ w_j' = w_j + 1
    /\ w_main' = IF w_j + 1 < w_numJobs THEN "send" ELSE "close_jobs"
    /\ UNCHANGED <<w_numJobs, w_numWorkers, w_i, w_pc, w_hold, w_results,
                   w_wg, w_closed, w_log, w_got>>
    /\ PoolFrame

\* main: close(jobs)
pool_main_close_jobs ==
    /\ w_main = "close_jobs"
    /\ w_closed' = [w_closed EXCEPT !["jobs"] = Append(@, 0)]
    /\ w_main' = "wait"
    /\ UNCHANGED <<w_numJobs, w_numWorkers, w_i, w_j, w_pc, w_hold, w_jobs,
                   w_results, w_wg, w_log, w_got>>
    /\ PoolFrame

\* faulty variant of pool_main_wait: main does not wait for the workers
pool_main_wait_skipped ==
    /\ w_main = "wait"
    /\ w_main' = "close_results"
    /\ UNCHANGED <<w_numJobs, w_numWorkers, w_i, w_j, w_pc, w_hold, w_jobs,
                   w_results, w_wg, w_closed, w_log, w_got>>
    /\ PoolFrame

\* main: wg.Wait() returns once the counter is zero
pool_main_wait ==
    /\ w_main = "wait"
    /\ w_wg = 0
    /\ w_main' = "close_results"
    /\ UNCHANGED <<w_numJobs, w_numWorkers, w_i, w_j, w_pc, w_hold, w_jobs,
                   w_results, w_wg, w_closed, w_log, w_got>>
    /\ PoolFrame

\* main: close(results)
pool_main_close_results ==
    /\ w_main = "close_results"
    /\ w_closed' = [w_closed EXCEPT !["results"] = Append(@, 0)]
    /\ w_main' = "range"
    /\ UNCHANGED <<w_numJobs, w_numWorkers, w_i, w_j, w_pc, w_hold, w_jobs,
                   w_results, w_wg, w_log, w_got>>
    /\ PoolFrame

\* main: `for result := range results` receives a buffered result
pool_main_recv ==
    /\ w_main = "range"
    /\ w_results # <<>>
    /\ w_got' = Append(w_got, Head(w_results))
    /\ w_results' = Tail(w_results)
    /\ UNCHANGED <<w_numJobs, w_numWorkers, w_main, w_i, w_j, w_pc, w_hold,
                   w_jobs, w_wg, w_closed, w_log>>
    /\ PoolFrame

\* main: results is closed and drained, the range loop ends
pool_main_exhausted ==
    /\ w_main = "range"
    /\ w_results = <<>>
    /\ w_isClosed("results")
    /\ w_main' = "done"
    /\ UNCHANGED <<w_numJobs, w_numWorkers, w_i, w_j, w_pc, w_hold, w_jobs,
                   w_results, w_wg, w_closed, w_log, w_got>>
    /\ PoolFrame

\* faulty variant of worker_recv: the worker hands the job to a new goroutine
\* and goes straight back to receiving
worker_recv_spawning(k) ==
    /\ k \in w_workers
    /\ w_pc[k] = "recv"
    /\ w_jobs # <<>>
    /\ w_log' = Append(w_log, Head(w_jobs))
    /\ w_jobs' = Tail(w_jobs)
    /\ UNCHANGED <<w_numJobs, w_numWorkers, w_main, w_i, w_j, w_pc, w_hold,
                   w_results, w_wg, w_closed, w_got>>
    /\ PoolFrame

\* worker k: `for job := range jobs` takes the oldest buffered job, works
\* on it and blocks in `results <- job * 2`
worker_recv(k) ==
    /\ k \in w_workers
    /\ w_pc[k] = "recv"
    /\ w_jobs # <<>>
    /\ w_hold' = [w_hold EXCEPT ![k] = pool_double(Head(w_jobs))]
    /\ w_log' = Append(w_log, Head(w_jobs))
    /\ w_jobs' = Tail(w_jobs)
    /\ w_pc' = [w_pc EXCEPT ![k] = "send"]
    /\ UNCHANGED <<w_numJobs, w_numWorkers, w_main, w_i, w_j, w_results, w_wg,
                   w_closed, w_got>>
    /\ PoolFrame

\* faulty variant of worker_exhausted: the worker leaves its loop as soon as
\* jobs is closed, whatever is still buffered
worker_exhausted_early(k) ==
    /\ k \in w_workers
    /\ w_pc[k] = "recv"
    /\ w_isClosed("jobs")
    /\ w_pc' = [w_pc EXCEPT ![k] = "defer"]
    /\ UNCHANGED <<w_numJobs, w_numWorkers, w_main, w_i, w_j, w_hold, w_jobs,
                   w_results, w_wg, w_closed, w_log, w_got>>
    /\ PoolFrame

\* faulty variant of worker_exhausted: the worker leaves its loop as soon as
\* jobs is empty, closed or not
worker_exhausted_eager(k) ==
    /\ k \in w_workers
    /\ w_pc[k] = "recv"
    /\ w_jobs = <<>>
    /\ w_pc' = [w_pc EXCEPT ![k] = "defer"]
    /\ UNCHANGED <<w_numJobs, w_numWorkers, w_main, w_i, w_j, w_hold, w_jobs,
                   w_results, w_wg, w_closed, w_log, w_got>>
    /\ PoolFrame

\* worker k: jobs is closed and drained, the range loop ends; the deferred
\* wg.Done() is what is left
worker_exhausted(k) ==
    /\ k \in w_workers
    /\ w_pc[k] = "recv"
    /\ w_jobs = <<>>
    /\ w_isClosed("jobs")
    /\ w_pc' = [w_pc EXCEPT ![k] = "defer"]
    /\ UNCHANGED <<w_numJobs, w_numWorkers, w_main, w_i, w_j, w_hold, w_jobs,
                   w_results, w_wg, w_closed, w_log, w_got>>
    /\ PoolFrame

\* faulty variant of worker_send: the worker goes back to its loop without
\* having put its result on results
worker_send_dropped(k) ==
    /\ k \in w_workers
    /\ w_pc[k] = "send"
    /\ w_pc' = [w_pc EXCEPT ![k] = "recv"]
    /\ UNCHANGED <<w_numJobs, w_numWorkers, w_main, w_i, w_j, w_hold, w_jobs,
                   w_results, w_wg, w_closed, w_log, w_got>>
    /\ PoolFrame

\* worker k: results <- job * 2, which blocks while the buffer is full
worker_send(k) ==
    /\ k \in w_workers
    /\ w_pc[k] = "send"
    /\ Len(w_results) < w_numJobs
    /\ ~w_isClosed("results")
    /\ w_results' = Append(w_results, w_hold[k])
    /\ w_pc' = [w_pc EXCEPT ![k] = "recv"]
    /\ UNCHANGED <<w_numJobs, w_numWorkers, w_main, w_i, w_j, w_hold, w_jobs,
                   w_wg, w_closed, w_log, w_got>>
    /\ PoolFrame

\* faulty variant of worker_done: the worker returns without wg.Done()
worker_done_forgotten(k) ==
    /\ k \in w_workers
    /\ w_pc[k] = "defer"
    /\ w_pc' = [w_pc EXCEPT ![k] = "done"]
    /\ UNCHANGED <<w_numJobs, w_numWorkers, w_main, w_i, w_j, w_hold, w_jobs,
                   w_results, w_wg, w_closed, w_log, w_got>>
    /\ PoolFrame

\* worker k: `defer wg.Done()`
worker_done(k) ==
    /\ k \in w_workers
    /\ w_pc[k] = "defer"
    /\ w_wg' = w_wg - 1
    /\ w_pc' = [w_pc EXCEPT ![k] = "done"]
    /\ UNCHANGED <<w_numJobs, w_numWorkers, w_main, w_i, w_j, w_hold, w_jobs,
                   w_results, w_closed, w_log, w_got>>
    /\ PoolFrame

PoolNext ==
    \/ pool_main_add
    \/ pool_main_go
    \/ pool_main_send
    \/ pool_main_close_jobs
    \/ pool_main_wait
    \/ pool_main_close_results
    \/ pool_main_recv
    \/ pool_main_exhausted
    \/ \E k \in w_workers : worker_recv(k)
    \/ \E k \in w_workers : worker_exhausted(k)
    \/ \E k \in w_workers : worker_send(k)
    \/ \E k \in w_workers : worker_done(k)

PoolSpec == PoolInit /\ [][PoolNext]_vars

PoolFairSpec == PoolSpec /\ WF_vars(PoolNext)

(***************************************************************************)
(* The max heap.  Go slices are indexed from 0, sequences from 1: index i  *)
(* of h.array is position i + 1 of the sequence.                           *)
(***************************************************************************)
buildHeap == <<50, 30, 20, 40, 10, 60, 70>>

HeapVals == {1, 2, 3}
HeapInputs == SeqsUpTo(HeapVals, MaxHeapLen) \cup {buildHeap}

\* Go's integer division truncates toward zero; \div rounds down
GoDiv(a, b) == IF a >= 0 THEN a \div b ELSE -((-a) \div b)

\* faulty variant of getParentIndex: the quotient is rounded down, so the
\* parent of the root is -1
getParentIndex_floor(index) == (index - 1) \div 2

\* return (index - 1) / 2
getParentIndex(index) == GoDiv(index - 1, 2)

\* faulty variant of swap: only the first of the two elements is assigned
swap_clobber(a, index1, index2) ==
    [a EXCEPT ![index1 + 1] = a[index2 + 1]]

\* h.array[index1], h.array[index2] = h.array[index2], h.array[index1]
swap(a, index1, index2) ==
    [a EXCEPT ![index1 + 1] = a[index2 + 1], ![index2 + 1] = a[index1 + 1]]

\* faulty variant of maxHeapifyUp: `if` in place of `for`, at most one swap
maxHeapifyUp_once(a, index) ==
    IF a[getParentIndex(index) + 1] < a[index + 1]
    THEN swap(a, getParentIndex(index), index)
    ELSE a

\* for h.array[parent(index)] < h.array[index] { swap; index = parent(index) }
RECURSIVE maxHeapifyUp(_, _)
maxHeapifyUp(a, index) ==
    IF a[getParentIndex(index) + 1] < a[index + 1]
    THEN maxHeapifyUp(swap(a, getParentIndex(index), index),
                      getParentIndex(index))
    ELSE a

\* insert: append the key, then sift it up from the last index
insert(a, key) == maxHeapifyUp(Append(a, key), Len(Append(a, key)) - 1)

\* main: m := &maxHeap{} and the keys to insert
HeapInit ==
    /\ PipeIdle /\ FanIdle /\ PoolIdle
    /\ h_array = <<>>
    /\ h_keys \in HeapInputs
    /\ h_i = 0
    /\ SiftIdle

\* main: one round of `for _, v := range buildHeap { m.insert(v) }`
heap_insert ==
    /\ h_i < Len(h_keys)
    /\ h_array' = insert(h_array, h_keys[h_i + 1])
    /\ h_i' = h_i + 1
    /\ UNCHANGED <<h_keys, svars>>
    /\ HeapFrame

HeapNext == heap_insert

HeapSpec == HeapInit /\ [][HeapNext]_vars

(***************************************************************************)
(* One call h.maxHeapifyUp(index) on an arbitrary array, one loop test at  *)
(* a time                                                                  *)
(***************************************************************************)
\* the non-empty arrays a call may find, and the heap buildHeap has made
\* when its last key has just been appended
SiftArrays ==
    (SeqsUpTo(HeapVals, MaxHeapLen) \ {<<>>})
        \cup {Append(<<60, 40, 50, 30, 10, 20>>, buildHeap[Len(buildHeap)])}

SiftInit ==
    /\ PipeIdle /\ FanIdle /\ PoolIdle
    /\ h_keys = <<>> /\ h_i = 0
    /\ h_array \in SiftArrays
    /\ s_start \in 0 .. (Len(h_array) - 1)
    /\ s_index = s_start
    /\ s_pc = "test"
    /\ s_swaps = 0
    /\ s_reads = {}

\* `for h.array[h.getParentIndex(index)] < h.array[index]`: both elements
\* are read (an index outside the slice panics); if the parent is smaller
\* the body swaps the two and moves index to the parent, else the loop ends
sift_test ==
    /\ s_pc = "test"
    /\ s_reads' = s_reads \cup {getParentIndex(s_index), s_index}
    /\ IF \/ getParentIndex(s_index) \notin 0 .. (Len(h_array) - 1)
          \/ s_index \notin 0 .. (Len(h_array) - 1)
       THEN /\ s_pc' = "panic"
            /\ UNCHANGED <<h_array, s_index, s_swaps>>
       ELSE IF h_array[getParentIndex(s_index) + 1] < h_array[s_index + 1]
       THEN /\ h_array' = swap(h_array, getParentIndex(s_index), s_index)
            /\ s_index' = getParentIndex(s_index)
            /\ s_swaps' = s_swaps + 1
            /\ s_pc' = "test"
       ELSE /\ s_pc' = "done"
            /\ UNCHANGED <<h_array, s_index, s_swaps>>
    /\ UNCHANGED <<h_keys, h_i, s_start>>
    /\ HeapFrame

SiftNext == sift_test

SiftSpec == SiftInit /\ [][SiftNext]_vars

(***************************************************************************)
(* Any one of the three programs: a run is a run of the pipeline, of the   *)
(* fan-out/fan-in or of the worker pool                                    *)
(***************************************************************************)
AllInit == PipeInit \/ FanInit \/ PoolInit

AllNext ==
    \/ (p_pc # <<>> /\ PipeNext)
    \/ (f_pc # <<>> /\ FanNext)
    \/ (w_pc # <<>> /\ PoolNext)

AllSpec == AllInit /\ [][AllNext]_vars

(***************************************************************************)
(* Width zero: numWorkers := 0 in the fan-out program or in the worker     *)
(* pool.  No lane, square worker, forwarder or pool worker exists, so only *)
(* the steps of the remaining goroutines are listed.                       *)
(***************************************************************************)
ZeroInit ==
    /\ PipeIdle /\ HeapIdle
    /\ \/ (PoolIdle /\ \E nums \in FanInputs \cup {DemoFanNums} :
                           FanInitFor(nums, 0))
       \/ (FanIdle /\ \E nj \in PoolJobs \cup {numJobs} : PoolInitFor(nj, 0))

ZeroFanNext ==
    \/ generator_close
    \/ dist_recv
    \/ dist_exhausted
    \/ fanIn_go_closer
    \/ closer_wait
    \/ closer_close
    \/ fan_main_exhausted

ZeroPoolNext ==
    \/ pool_main_send
    \/ pool_main_close_jobs
    \/ pool_main_wait
    \/ pool_main_close_results
    \/ pool_main_exhausted

ZeroNext ==
    \/ (f_pc # <<>> /\ ZeroFanNext)
    \/ (f_pc = <<>> /\ ZeroPoolNext)

ZeroSpec == ZeroInit /\ [][ZeroNext]_vars

(***************************************************************************)
(* Claims                                                                  *)
(***************************************************************************)

\* every goroutine of the pipeline has returned and the final channel is closed
PipeTerminated ==
    /\ \A g \in DOMAIN p_pc : p_pc[g] = "done"
    /\ p_isClosed(p_main - 1)

\* C1: linear pipeline termination. No reachable state of the pipeline is a
\* deadlock (a state that is not terminated has a step to take), and under
\* fair scheduling the run ends with the final channel closed and every
\* goroutine (generate, each stage, main's loop) returned.
C1_PipelineTerminates ==
    /\ [](PipeTerminated \/ ENABLED PipeNext)
    /\ <>[]PipeTerminated

\* the first demo pipeline has terminated
C1_Witness ==
    /\ p_nums = DemoNums1
    /\ p_fns = DemoChain1
    /\ PipeTerminated

\* every goroutine of the fan-out/fan-in program has returned and the
\* merged results channel is closed
FanTerminated ==
    /\ \A g \in DOMAIN f_pc : f_pc[g] = "done"
    /\ f_isClosed(OUT)

\* C2: fan-out/fan-in termination for numWorkers >= 1. No reachable state is
\* a deadlock, and under fair scheduling the run ends with results closed
\* and generator, distributor, workers, forwarders, closer and main returned.
C2_FanTerminates ==
    /\ [](f_n >= 1 => (FanTerminated \/ ENABLED FanNext))
    /\ <>[](f_n >= 1 => FanTerminated)

\* the demo (1..10 over 3 workers) has terminated
C2_Witness ==
    /\ f_nums = DemoFanNums
    /\ f_n = DemoFanWorkers
    /\ FanTerminated

\* main and every worker of the pool have returned and results is closed
PoolTerminated ==
    /\ w_main = "done"
    /\ \A k \in w_workers : w_pc[k] = "done"
    /\ w_isClosed("results")

\* C3: worker-pool termination for numWorkers >= 1. No reachable state is a
\* deadlock, and under fair scheduling every worker exits, results is
\* closed and main's consuming loop ends.
C3_PoolTerminates ==
    /\ [](w_numWorkers >= 1 => (PoolTerminated \/ ENABLED PoolNext))
    /\ <>[](w_numWorkers >= 1 => PoolTerminated)

\* the demo pool (5 jobs, 3 workers) has terminated with all results read
C3_Witness ==
    /\ w_numJobs = numJobs
    /\ w_numWorkers = numWorkers
    /\ PoolTerminated
    /\ Len(w_got) = numJobs

\* the composition f_k o ... o f_1 of a chain of stages, applied to n
RECURSIVE ApplyChain(_, _)
ApplyChain(fns, n) ==
    IF fns = <<>> THEN n ELSE ApplyChain(Tail(fns), transform(Head(fns), n))

\* C4: order preservation. What main has received from the last stage is
\* always a prefix of map(f_k o ... o f_1, input) in input order, and the
\* whole of it once main's loop has ended; generate(1,2,3,4,5) -> square ->
\* addTen -> double delivers 22, 28, 38, 52, 70 and generate(1,2,3) ->
\* triple -> subtract5 -> square delivers 4, 1, 16.
C4_OrderPreserved ==
    /\ Len(p_got) <= Len(p_nums)
    /\ \A i \in 1 .. Len(p_got) : p_got[i] = ApplyChain(p_fns, p_nums[i])
    /\ p_pc[p_main] = "done" => Len(p_got) = Len(p_nums)
    /\ (p_pc[p_main] = "done" /\ p_nums = DemoNums1 /\ p_fns = DemoChain1)
          => p_got = <<22, 28, 38, 52, 70>>
    /\ (p_pc[p_main] = "done" /\ p_nums = DemoNums2 /\ p_fns = DemoChain2)
          => p_got = <<4, 1, 16>>

\* main has received all three results of the second demo pipeline
C4_Witness ==
    /\ p_nums = DemoNums2
    /\ p_fns = DemoChain2
    /\ p_pc[p_main] = "done"
    /\ p_got = <<4, 1, 16>>

\* the items worker w has received on its lane, in order
LaneItems(w) ==
    LET mine == SelectSeq(f_log, LAMBDA e : e[1] = w)
    IN  [k \in 1 .. Len(mine) |-> mine[k][2]]

RECURSIVE IsSubseq(_, _)
IsSubseq(a, b) ==
    IF a = <<>> THEN TRUE
    ELSE IF b = <<>> THEN FALSE
    ELSE IF Head(a) = Head(b) THEN IsSubseq(Tail(a), Tail(b))
    ELSE IsSubseq(a, Tail(b))

\* the multiset union of the sequences q[0], ..., q[n-1]
RECURSIVE BagOfLanes(_, _)
BagOfLanes(q, n) ==
    IF n = 0 THEN EmptyBag ELSE SeqToBag(q[n - 1]) (+) BagOfLanes(q, n - 1)

\* C5: fan-out partition. Once the distributor has closed all lanes, the
\* multiset union of the items received on the n lanes equals the input
\* multiset, and the items of each lane are a subsequence of the input.
C5_FanOutPartition ==
    f_pc[DIST] = "done" =>
        /\ BagOfLanes([w \in f_lanes |-> LaneItems(w)], f_n) = SeqToBag(f_nums)
        /\ \A w \in f_lanes : IsSubseq(LaneItems(w), f_nums)

\* the distributor has closed the lanes of a run in which both of two lanes
\* received items
C5_Witness ==
    /\ f_pc[DIST] = "done"
    /\ f_n = 2
    /\ Len(f_nums) = 3
    /\ LaneItems(0) # <<>>
    /\ LaneItems(1) # <<>>

\* C6: round-robin assignment. The i-th item received from the input
\* (counting from 0) is handed to lane i mod n and to no other lane; for
\* input 1..10 and n = 3 the lanes receive 1,4,7,10 / 2,5,8 / 3,6,9.
C6_RoundRobin ==
    /\ Len(f_log) <= Len(f_nums)
    /\ \A k \in 1 .. Len(f_log) : f_log[k] = <<(k - 1) % f_n, f_nums[k]>>
    /\ (f_pc[DIST] = "done" /\ f_nums = DemoFanNums /\ f_n = DemoFanWorkers)
          => /\ LaneItems(0) = <<1, 4, 7, 10>>
             /\ LaneItems(1) = <<2, 5, 8>>
             /\ LaneItems(2) = <<3, 6, 9>>

\* the demo's distributor has handed over all ten items
C6_Witness ==
    /\ f_nums = DemoFanNums
    /\ f_n = DemoFanWorkers
    /\ f_pc[DIST] = "done"
    /\ Len(f_log) = 10

\* C7: fan-in completeness. When main's loop over fanIn's output has ended,
\* the multiset it received equals the multiset union of the values sent on
\* the inputs; for the demo it is {1,4,9,16,25,36,49,64,81,100}.
C7_FanInComplete ==
    f_pc[MAIN] = "done" =>
        /\ \A w \in f_lanes : f_isClosed(WORKER(w))
        /\ BagOfLanes(f_got, f_n) = BagOfLanes(f_in, f_n)
        /\ BagOfLanes(f_in, f_n)
              = SeqToBag([k \in 1 .. Len(f_nums) |-> fan_square(f_nums[k])])
        /\ (f_nums = DemoFanNums /\ f_n = DemoFanWorkers)
              => BagOfLanes(f_got, f_n)
                    = SeqToBag(<<1, 4, 9, 16, 25, 36, 49, 64, 81, 100>>)

\* main's loop has ended in the demo, with results of every lane received
C7_Witness ==
    /\ f_nums = DemoFanNums
    /\ f_n = DemoFanWorkers
    /\ f_pc[MAIN] = "done"
    /\ \A w \in f_lanes : f_got[w] # <<>>

\* every input channel of fanIn has been closed (being unbuffered, a closed
\* input holds nothing more to drain)
AllInputsClosed == \A w \in f_lanes : f_isClosed(WORKER(w))

\* C8: fan-in close condition. Whenever out is closed, every input is
\* closed, every forwarder has drained its input and returned, and the
\* WaitGroup counter is zero; and once all inputs are closed, out is
\* eventually closed.
C8_FanInCloseCondition ==
    /\ [](f_isClosed(OUT) =>
            /\ AllInputsClosed
            /\ \A w \in f_lanes : f_pc[FWD(w)] = "done"
            /\ f_wg = 0)
    /\ (AllInputsClosed ~> f_isClosed(OUT))

\* all three inputs are closed and out is not closed yet
C8_Witness ==
    /\ f_n = DemoFanWorkers
    /\ AllInputsClosed
    /\ ~f_isClosed(OUT)
    /\ f_wg > 0

\* C9: no premature close in the merger. While out is closed no forwarder
\* is still to be launched, in its range loop or blocked in a send on out;
\* out is closed once, by the closer.
C9_NoPrematureCloseMerger ==
    /\ f_isClosed(OUT) =>
          \A w \in f_lanes : f_pc[FWD(w)] \notin {"unborn", "recv", "send"}
    /\ \A w \in f_lanes : ~(f_pc[FWD(w)] = "send" /\ f_isClosed(OUT))
    /\ f_closed[OUT] \in {<<>>, <<CLOSER>>}

\* out has been closed after three forwarders delivered values
C9_Witness ==
    /\ f_isClosed(OUT)
    /\ f_n = DemoFanWorkers
    /\ \A w \in f_lanes : Len(f_in[w]) >= 3

\* C10: no premature close in the worker pool. results is closed by main
\* only, once, and only when every worker has returned and the WaitGroup
\* counter is zero; no worker is in its loop or blocked in a send on a
\* closed results.
C10_NoPrematureClosePool ==
    /\ w_closed["results"] \in {<<>>, <<0>>}
    /\ w_isClosed("results") =>
          /\ w_wg = 0
          /\ \A k \in w_workers : w_pc[k] = "done"
    /\ w_main \in {"close_results", "range", "done"} => w_wg = 0

\* results has been closed in the demo pool after all five results were sent
C10_Witness ==
    /\ w_numJobs = numJobs
    /\ w_numWorkers = numWorkers
    /\ w_isClosed("results")
    /\ Len(w_results) = numJobs

\* the number of jobs a worker has received and whose result is not yet sent
InFlight == Len(w_log) - Len(w_results) - Len(w_got)

\* C11: bounded concurrency. In a pool of width w at most w jobs are being
\* transformed at any time: the jobs received and not yet answered are
\* exactly those held by the workers blocked before their send, one each.
C11_BoundedConcurrency ==
    /\ InFlight <= w_numWorkers
    /\ InFlight = Cardinality({k \in w_workers : w_pc[k] = "send"})

\* all three workers of the demo pool hold a job at the same time
C11_Witness ==
    /\ w_numJobs = numJobs
    /\ w_numWorkers = numWorkers
    /\ InFlight = numWorkers

\* the closes of the pipeline: channel c is closed at most once, by its
\* producer, goroutine c (its receiver is goroutine c + 1), and its
\* producer is never in a send on it once it is closed
PipeCloses ==
    \A c \in DOMAIN p_closed :
        /\ p_closed[c] \in {<<>>, <<c>>}
        /\ ~(p_isClosed(c) /\ p_pc[c] = "send")

\* the closes of the fan-out/fan-in: input by the generator, each lane by
\* the distributor, each workers[i] by its square worker, out by the closer,
\* each at most once, and no sender is in a send on a closed channel
FanCloses ==
    f_pc # <<>> =>
        /\ f_closed[INPUT] \in {<<>>, <<GEN>>}
        /\ f_closed[OUT] \in {<<>>, <<CLOSER>>}
        /\ \A w \in f_lanes :
              /\ f_closed[LANE(w)] \in {<<>>, <<DIST>>}
              /\ f_closed[WORKER(w)] \in {<<>>, <<SQ(w)>>}
              /\ ~(f_isClosed(WORKER(w)) /\ f_pc[SQ(w)] = "send")
              /\ ~(f_isClosed(OUT) /\ f_pc[FWD(w)] = "send")
        /\ ~(f_isClosed(INPUT) /\ f_pc[GEN] = "send")
        /\ f_pc[DIST] = "send" => ~f_isClosed(LANE(dist_lane(f_i, f_n)))

\* the closes of the pool: jobs and results by main (goroutine 0), each at
\* most once; jobs only after main's last send; no worker is in a send on
\* results once it is closed
PoolCloses ==
    w_pc # <<>> =>
        /\ w_closed["jobs"] \in {<<>>, <<0>>}
        /\ w_closed["results"] \in {<<>>, <<0>>}
        /\ w_isClosed("jobs") => (w_j = w_numJobs /\ w_main # "send")
        /\ \A k \in w_workers : ~(w_isClosed("results") /\ w_pc[k] = "send")

\* the goroutines of the pool that receive from a channel: the workers
\* range over jobs, main (goroutine 0) ranges over results
PoolReceivers(c) == IF c = "jobs" THEN w_workers ELSE {0}

FanSourceReceived ==
    [k \in 1 .. Len(f_log) |-> f_log[k][2]]
        \o (IF f_pc[DIST] = "send" THEN <<f_hold[DIST]>> ELSE <<>>)

\* generate of the pipeline: p_idx items have been handed over, they are the
\* first p_idx elements of nums in order, and out is closed only by generate
\* and only once all of them have been received
PipeSourceContract ==
    p_pc # <<>> =>
        /\ p_idx \in 0 .. Len(p_nums)
        /\ p_pc[1] = "send" => (p_idx < Len(p_nums) /\ ~p_isClosed(1))
        /\ p_isClosed(1) => (p_idx = Len(p_nums) /\ p_closed[1] = <<1>>)
        /\ p_k = 0 => p_got = SubSeq(p_nums, 1, p_idx)
        /\ (p_k > 0 /\ p_pc[2] = "send") =>
               (p_idx > 0 /\ p_hold[2] = transform(p_fns[1], p_nums[p_idx]))
        /\ p_nums = <<>> =>
               (p_pc[1] \in {"close", "done"} /\ p_got = <<>>
                /\ p_pc[2] \in {"recv", "close", "done"})

\* generator of the fan-out program, the same contract
FanSourceContract ==
    f_pc # <<>> =>
        /\ f_idx \in 0 .. Len(f_nums)
        /\ f_pc[GEN] = "send" => (f_idx < Len(f_nums) /\ ~f_isClosed(INPUT))
        /\ f_isClosed(INPUT) =>
               (f_idx = Len(f_nums) /\ f_closed[INPUT] = <<GEN>>)
        /\ FanSourceReceived = SubSeq(f_nums, 1, f_idx)
        /\ f_nums = <<>> =>
               (f_pc[GEN] \in {"close", "done"} /\ f_log = <<>>
                /\ f_pc[DIST] \in {"recv", "close", "done"})

\* C14: a source sends every item of its input exactly once, in input order,
\* on its channel and closes that channel only after the last item has been
\* received; for an empty input it closes the channel without sending, and
\* its consumer goes from waiting to exhaustion without receiving anything.
C14_SourceContract == PipeSourceContract /\ FanSourceContract

\* the demo fan-out run: all ten items taken from the generator in order,
\* then the channel closed by the generator
C14_Witness ==
    /\ f_pc # <<>>
    /\ f_nums = DemoFanNums
    /\ f_idx = Len(DemoFanNums)
    /\ f_closed[INPUT] = <<GEN>>

\* every goroutine of the pipeline has returned and every channel is closed
PipeAllClosed ==
    \A g \in p_chans : p_pc[g] = "done" /\ p_isClosed(g)

\* C15: once the consumer has stopped receiving, every component stops and
\* closes its output channel: a state in which the consumer is gone is either
\* still moving towards that or has every goroutine returned and every channel
\* closed; no goroutine is left blocked in a send for good.
C15_Cancellation ==
    (p_pc # <<>> /\ p_pc[p_main] = "abandoned") =>
        (PipeAllClosed \/ ENABLED PipeCancelNext)

\* C16: a width of zero is rejected at construction: no goroutine is launched
\* afterwards, no item is taken from the source or put on jobs, the
\* distributor never faults while running, and the pool never finishes with
\* fewer results than jobs.
C16_ZeroWidthRejected ==
    /\ (f_pc # <<>> /\ f_n = 0) =>
           (~f_panic /\ f_idx = 0 /\ f_pc[CLOSER] = "unborn")
    /\ (f_pc = <<>> /\ w_numWorkers = 0) =>
           (w_j = 0 /\ ~(w_main = "done" /\ Len(w_got) < w_numJobs))

\* C17: if a stage's function faults on an item, the stage still closes its
\* output channel and every downstream channel gets closed: a state in which
\* a stage has faulted is either still moving, or has the output of the
\* faulted stage and of every later stage closed.
C17_ClosureOnFault ==
    \A s \in DOMAIN p_pc :
        p_pc[s] = "panic" =>
            \/ \A c \in s .. (p_k + 1) : p_isClosed(c)
            \/ ENABLED PipeFaultNext

\* C18: after any sequence of inserts into an empty heap, every element at
\* an index i >= 1 is at most its parent at index (i-1)/2, and array[0] is
\* the maximum of all the keys inserted.
C18_MaxHeapProperty ==
    /\ \A i \in 1 .. (Len(h_array) - 1) :
           h_array[((i - 1) \div 2) + 1] >= h_array[i + 1]
    /\ h_i > 0 =>
           /\ \A j \in 1 .. h_i : h_array[1] >= h_keys[j]
           /\ \E j \in 1 .. h_i : h_array[1] = h_keys[j]

\* the heap main prints last: all seven keys of buildHeap inserted
C18_Witness ==
    /\ h_keys = buildHeap
    /\ h_i = Len(buildHeap)
    /\ h_array = <<70, 40, 60, 30, 10, 20, 50>>

\* the phase of the pool: 0 created (still launching workers), 1 running
\* (all workers launched, jobs open), 2 draining (jobs closed, results open),
\* 3 terminated (results closed)
PoolPhase ==
    IF w_isClosed("results") THEN 3
    ELSE IF w_isClosed("jobs") THEN 2
    ELSE IF w_main \notin {"add", "go"} THEN 1
    ELSE 0

PoolPhaseOrder ==
    /\ w_isClosed("jobs") =>
           (w_i = w_numWorkers /\ \A k \in w_workers : w_pc[k] # "unborn")
    /\ (\E k \in w_workers : w_pc[k] \in {"defer", "done"}) =>
           w_isClosed("jobs")
    /\ w_isClosed("results") =>
           (w_isClosed("jobs") /\ w_closed["results"] = <<0>>
            /\ \A k \in w_workers : w_pc[k] = "done")

\* C19: the pool moves through created, running, draining, terminated in
\* that order, one phase at a time and never backwards; all workers are
\* launched before jobs is closed, jobs is closed before any worker exits, and
\* results is closed only after every worker has exited, by main.
C19_PoolLifecycle ==
    /\ [](w_pc # <<>> => PoolPhaseOrder)
    /\ [][w_pc # <<>> => PoolPhase' \in {PoolPhase, PoolPhase + 1}]_vars

\* the demo pool in its last phase, having been through the other three
C19_Witness ==
    /\ w_numJobs = numJobs /\ w_numWorkers = numWorkers
    /\ PoolPhase = 3
    /\ w_main = "done"
    /\ Len(w_got) = numJobs

\* C20 as stated: once jobs has been closed no worker receives a job from it
\* (w_log, the jobs received, does not grow).
C20_Original ==
    [][(w_pc # <<>> /\ w_isClosed("jobs")) => w_log' = w_log]_vars

\* C20, amended: once jobs has been closed nothing more is sent on it; the
\* workers go on receiving the jobs still buffered at the close, oldest
\* first, and a worker leaves its loop only when jobs is closed and empty.
C20_Draining ==
    /\ [][(w_pc # <<>> /\ w_isClosed("jobs")) =>
            /\ w_j' = w_j
            /\ \/ (w_jobs' = w_jobs /\ w_log' = w_log)
               \/ (w_jobs # <<>> /\ w_jobs' = Tail(w_jobs)
                   /\ w_log' = Append(w_log, Head(w_jobs)))]_vars
    /\ [](w_pc # <<>> =>
            \A k \in w_workers :
                w_pc[k] \in {"defer", "done"} =>
                    (w_isClosed("jobs") /\ w_jobs = <<>>))

\* the demo pool at the close with all five jobs still buffered and the three
\* workers waiting to receive: every job is received after the close
C20_Witness ==
    /\ w_numJobs = numJobs /\ w_numWorkers = numWorkers
    /\ w_isClosed("jobs")
    /\ Len(w_jobs) = numJobs
    /\ \A k \in w_workers : w_pc[k] = "recv"

\* how many times v occurs in the sequence s
Count(s, v) == Cardinality({i \in 1 .. Len(s) : s[i] = v})

\* C21: every job sent on jobs is received by exactly one worker and exactly
\* one result 2*job is produced for it: a job sent is either still buffered
\* or received once, a job received has its result held by one worker or put
\* on results once, and when the pool has terminated main has received each
\* of 2*1 .. 2*numJobs exactly once and nothing else.
C21_PoolExactlyOnce ==
    w_pc # <<>> =>
        /\ \A j \in 1 .. w_numJobs :
              /\ Count(w_jobs, j) + Count(w_log, j) = (IF j <= w_j THEN 1 ELSE 0)
              /\ Count(w_got, 2 * j) + Count(w_results, 2 * j)
                   + Cardinality({k \in w_workers :
                                     w_pc[k] = "send" /\ w_hold[k] = 2 * j})
                 = Count(w_log, j)
        /\ Len(w_jobs) + Len(w_log) = w_j
        /\ Len(w_got) + Len(w_results)
             + Cardinality({k \in w_workers : w_pc[k] = "send"}) = Len(w_log)
        /\ PoolTerminated =>
              (Len(w_got) = w_numJobs
               /\ \A j \in 1 .. w_numJobs : Count(w_got, 2 * j) = 1)

\* the demo pool has terminated and main holds the five results 2,4,6,8,10
C21_Witness ==
    /\ w_numJobs = numJobs /\ w_numWorkers = numWorkers
    /\ PoolTerminated
    /\ {w_got[i] : i \in 1 .. Len(w_got)} = {2, 4, 6, 8, 10}
    /\ Len(w_got) = numJobs

\* items taken from the source and not yet delivered to the consumer
PipeInFlight == p_idx - Len(p_got)

\* each stage holds at most one item, the one it is blocked sending
PipeBound ==
    /\ PipeInFlight = Cardinality({s \in p_stages : p_pc[s] = "send"})
    /\ PipeInFlight <= p_k

\* the consumer has stopped receiving and nothing can move any more
PipeStalled ==
    /\ p_pc[p_main] = "abandoned"
    /\ ~ENABLED PipeCancelNext

\* C22 as stated: at most k items are in flight, and once the consumer has
\* stopped receiving, every stage and the source end up blocked on a send.
C22_Original ==
    p_pc # <<>> =>
        /\ PipeBound
        /\ PipeStalled => \A g \in p_chans : p_pc[g] = "send"

\* C22, amended: at most k items are in flight, one per stage blocked on its
\* send; once the consumer has stopped receiving and nothing can move, the
\* goroutines blocked on a send are the last m of source and stages, m being
\* the number of items not delivered (at most k + 1), and the ones before
\* them have run out of input and closed their outputs.
C22_Backpressure ==
    p_pc # <<>> =>
        /\ PipeBound
        /\ PipeStalled =>
              \A g \in p_chans :
                  IF g > p_k + 1 - (Len(p_nums) - Len(p_got))
                  THEN p_pc[g] = "send"
                  ELSE p_pc[g] = "done" /\ p_isClosed(g)

\* the demo pipeline with the consumer gone before the first result: the
\* source and the three stages are all blocked on their sends
C22_Witness ==
    /\ p_nums = DemoNums1 /\ p_fns = DemoChain1
    /\ PipeStalled
    /\ PipeInFlight = Len(DemoChain1)
    /\ \A g \in p_chans : p_pc[g] = "send"

\* C23: a stage closes its output only after its input is closed and drained
\* and its last result has been received downstream, so the channels close in
\* pipeline order (a closed channel has every earlier channel closed, every
\* goroutine up to its own returned and every item in flight beyond it), and
\* the consumer's loop ends only after the final channel is closed, with
\* every item delivered.
C23_CloseOrder ==
    p_pc # <<>> =>
        /\ \A c \in p_chans :
              /\ p_pc[c] \in {"close", "done"} =>
                    (c > 1 => (p_isClosed(c - 1) /\ p_pc[c - 1] = "done"))
              /\ p_isClosed(c) =>
                    /\ \A b \in 1 .. c : p_isClosed(b) /\ p_pc[b] = "done"
                    /\ p_idx = Len(p_nums)
                    /\ p_idx - Len(p_got)
                         = Cardinality({s \in p_stages :
                                           s > c /\ p_pc[s] = "send"})
        /\ p_pc[p_main] = "done" =>
              (p_isClosed(p_k + 1) /\ Len(p_got) = Len(p_nums))

\* the first demo pipeline after the last close: all four channels closed,
\* the five results delivered and main's loop over
C23_Witness ==
    /\ p_nums = DemoNums1 /\ p_fns = DemoChain1
    /\ \A c \in p_chans : p_closed[c] = <<c>>
    /\ p_pc[p_main] = "done"
    /\ Len(p_got) = Len(DemoNums1)

\* forwarders that have been launched and have not yet exited
FwdLive ==
    Cardinality({w \in f_lanes : f_pc[FWD(w)] \in {"recv", "send", "defer"}})

\* what C24 says besides the value of the counter: forwarders are launched
\* in channel order, each after its Add; the closer starts only after the
\* last launch; a forwarder is past its loop only with its input closed; the
\* counter is never negative and is zero when the closer closes out, which
\* only the closer does, once
MergerCounterRules ==
    /\ f_wg >= 0
    /\ f_m \in 0 .. f_n
    /\ \A w \in f_lanes : (f_pc[FWD(w)] # "unborn") <=> (w < f_m)
    /\ f_pc[MAIN] = "go" => f_wg >= 1
    /\ f_pc[CLOSER] # "unborn" => f_m = f_n
    /\ \A w \in f_lanes :
          f_pc[FWD(w)] \in {"defer", "done"} => f_isClosed(WORKER(w))
    /\ f_pc[CLOSER] \in {"close", "done"} => f_wg = 0
    /\ f_closed[OUT] \in {<<>>, <<CLOSER>>}
    /\ f_isClosed(OUT) => f_pc[CLOSER] = "done"

\* C24 as stated: besides the rules above, the counter always equals the
\* number of forwarders that have not yet exited.
C24_Original ==
    f_pc # <<>> => (MergerCounterRules /\ f_wg = FwdLive)

\* C24, amended: the counter equals the number of forwarders launched and
\* not yet exited, plus one while fanIn is between wg.Add(1) and the go
\* statement of that channel's forwarder.
C24_MergerCounter ==
    f_pc # <<>> =>
        /\ MergerCounterRules
        /\ f_wg = FwdLive + (IF f_pc[MAIN] = "go" THEN 1 ELSE 0)

\* the demo merger at its end: three forwarders exited, counter back at
\* zero, out closed once by the closer
C24_Witness ==
    /\ f_pc # <<>>
    /\ f_n = DemoFanWorkers
    /\ \A w \in f_lanes : f_pc[FWD(w)] = "done"
    /\ f_wg = 0
    /\ f_closed[OUT] = <<CLOSER>>

\* C25: for every input channel of fanIn, the values main has received from
\* it are, in order, the values sent on that input, except for the one value
\* its forwarder may still hold; when main's loop has ended each input's
\* values have all arrived, in the order sent, none lost or duplicated.
C25_MergerLaneOrder ==
    f_pc # <<>> =>
        \A w \in f_lanes :
            /\ f_in[w] = f_got[w] \o (IF f_pc[FWD(w)] = "send"
                                      THEN <<f_hold[FWD(w)]>> ELSE <<>>)
            /\ IsSubseq(f_got[w],
                        [k \in 1 .. Len(f_nums) |-> fan_square(f_nums[k])])
            /\ f_pc[MAIN] = "done" =>
                   f_got[w] = [k \in 1 .. Len(LaneItems(w)) |->
                                  fan_square(LaneItems(w)[k])]

\* a value of the second input has come out of the merger while the value
\* sent earlier on the first input is still held by its forwarder: the
\* order between inputs is not kept
C25_Witness ==
    /\ f_pc # <<>>
    /\ f_n = 2
    /\ f_got[1] # <<>>
    /\ f_got[0] = <<>>
    /\ f_pc[FWD(0)] = "send"

\* C26: under fair scheduling every job placed in jobs is eventually received
\* by a worker and its result 2*job eventually put on results; none stays
\* queued for ever.
C26_NoStarvation ==
    \A j \in 1 .. (numJobs + MaxJobs) :
        (Count(w_jobs, j) = 1) ~>
            (/\ Count(w_jobs, j) = 0
             /\ Count(w_log, j) = 1
             /\ Count(w_results, 2 * j) + Count(w_got, 2 * j) = 1)

\* the demo pool with the queue drained and all five results on results,
\* before main has closed it
C26_Witness ==
    /\ w_numJobs = numJobs /\ w_numWorkers = numWorkers
    /\ w_jobs = <<>>
    /\ Len(w_log) = numJobs
    /\ Len(w_results) = numJobs
    /\ ~w_isClosed("results")

\* C27: main receives results only after wg.Wait and close(results); jobs and
\* results never hold more than numJobs items; a worker about to send finds
\* room in results and main about to send finds room in jobs; when results
\* is closed it holds all numJobs results and none has been received yet.
C27_PoolBuffering ==
    /\ [](w_pc # <<>> =>
            /\ Len(w_results) <= w_numJobs
            /\ Len(w_jobs) <= w_numJobs
            /\ \A k \in w_workers :
                  w_pc[k] = "send" =>
                      (Len(w_results) < w_numJobs /\ ~w_isClosed("results"))
            /\ w_main = "send" =>
                  (Len(w_jobs) < w_numJobs /\ ~w_isClosed("jobs"))
            /\ (w_got # <<>> \/ w_main \in {"range", "done"}) =>
                  (w_isClosed("results") /\ w_wg = 0)
            /\ w_isClosed("results") =>
                  Len(w_results) + Len(w_got) = w_numJobs)
    /\ [][(w_pc # <<>> /\ ~w_isClosed("results") /\ w_isClosed("results")') =>
             (Len(w_results') = w_numJobs /\ w_got' = <<>>)]_vars

\* the demo pool just after close(results): five results buffered, none
\* received, main entering its range loop
C27_Witness ==
    /\ w_numJobs = numJobs /\ w_numWorkers = numWorkers
    /\ w_closed["results"] = <<0>>
    /\ w_main = "range"
    /\ Len(w_results) = numJobs
    /\ w_got = <<>>

\* the lane the distributor is blocked sending on
DistLane == f_i % f_n

\* C28: input items are received by their lanes' workers in input order: the
\* hand-offs so far are those of the first items of the input, each new
\* hand-off is that of the next input item and is added after all earlier
\* ones, and the distributor holds at most the one item that comes next.
\* While the worker of that item's lane is busy, no worker of any lane can
\* receive and the distributor can take nothing from its input.
C28_HandOffOrder ==
    /\ [](f_pc # <<>> =>
            /\ f_i = Len(f_log)
            /\ f_idx = f_i + (IF f_pc[DIST] = "send" THEN 1 ELSE 0)
            /\ f_pc[DIST] = "send" => f_hold[DIST] = f_nums[f_i + 1]
            /\ (f_pc[DIST] = "send" /\ f_pc[SQ(DistLane)] # "recv") =>
                  /\ \A w \in f_lanes : ~ENABLED square_recv(w)
                  /\ ~ENABLED dist_recv)
    /\ [][(f_pc # <<>> /\ f_log' # f_log) =>
             /\ f_pc[DIST] = "send"
             /\ f_log' = Append(f_log, <<DistLane, f_nums[Len(f_log) + 1]>>)]_vars

\* two lanes: the third item waits for the worker of lane 0, which is still
\* busy with the first, while the worker of lane 1 stands idle
C28_Witness ==
    /\ f_pc # <<>>
    /\ f_n = 2
    /\ f_i = 2
    /\ f_pc[DIST] = "send"
    /\ f_pc[SQ(0)] = "send"
    /\ f_pc[SQ(1)] = "recv"

\* the steps of fanIn's own goroutines and of the consumer of its output
\* when there is no input channel
EmptyMergeStep ==
    fanIn_go_closer \/ closer_wait \/ closer_close \/ fan_main_exhausted

RECURSIVE RootPath(_)
RootPath(index) ==
    IF index <= 0 THEN {0} ELSE {index} \cup RootPath((index - 1) \div 2)

\* C30: an insert makes the array one longer, leaves it a permutation of the
\* previous elements plus the inserted key, and changes no position other
\* than those on the path from the new index to the root.
C30_InsertPreserves ==
    [][h_i' # h_i =>
          /\ Len(h_array') = Len(h_array) + 1
          /\ SeqToBag(h_array')
               = SeqToBag(h_array) (+) SetToBag({h_keys[h_i + 1]})
          /\ \A i \in 0 .. (Len(h_array) - 1) :
                i \notin RootPath(Len(h_array)) => h_array'[i + 1] = h_array[i + 1]]_vars

\* the demo heap after its sixth insert: 60 has gone from index 5 through
\* index 2 to the root, indices 1, 3 and 4 still hold 40, 30 and 10
C30_Witness ==
    /\ h_keys = buildHeap
    /\ h_i = 6
    /\ h_array = <<60, 40, 50, 30, 10, 20>>

\* floor(log2(n)) for n >= 1
RECURSIVE Log2Floor(_)
Log2Floor(n) == IF n <= 1 THEN 0 ELSE 1 + Log2Floor(n \div 2)

\* C31: a call of maxHeapifyUp on any array with any valid start index makes
\* at most floor(log2(index+1)) swaps, reads only indices 0 .. len-1, never
\* panics, and until it has returned its next loop test is possible; at the
\* root the parent index is 0 again, so the root is compared with itself and
\* the loop ends there with the result of the call.
C31_SiftTerminates ==
    s_pc # "idle" =>
        /\ s_pc # "panic"
        /\ s_swaps <= Log2Floor(s_start + 1)
        /\ s_reads \subseteq 0 .. (Len(h_array) - 1)
        /\ s_index \in 0 .. s_start
        /\ getParentIndex(0) = 0
        /\ (s_pc = "done" /\ s_index = 0) => 0 \in s_reads
        /\ (s_pc = "done" \/ ENABLED SiftNext)
        /\ s_pc = "done" => h_array = maxHeapifyUp(h_array, s_index)

\* the last insert of the demo: 70 appended at index 6 has been swapped
\* twice, floor(log2(7)) times, and the loop has ended at the root
C31_Witness ==
    /\ s_pc = "done"
    /\ s_start = 6
    /\ s_index = 0
    /\ s_swaps = 2
    /\ s_reads = {0, 2, 6}
    /\ h_array = <<70, 40, 60, 30, 10, 20, 50>>

=============================================================================
